---- MODULE Spec2Model ----
(***************************************************************************)
(* A model of the NBA foul / win-probability exporter (src/npa.py).        *)
(*                                                                         *)
(* The program is a set of sequential data-shaping functions.  Each        *)
(* component is checked under a specification of its own:                  *)
(*   SpecTime     parse_game_time                                          *)
(*   SpecTimeline build_wp_df_from_summary                                 *)
(*   SpecTeam     get_home_away_meta, infer_foul_team, infer_foul_on       *)
(*   SpecFoul     extract_foul_rows                                        *)
(*   SpecSeason   list_event_ids_for_season                                *)
(*   SpecExport   export_fouls_for_season                                  *)
(*                                                                         *)
(* Python values are tagged records, so that None, NaN, numbers and        *)
(* strings can meet in one field.  Strings are sequences of one-character  *)
(* strings, so that split, lower, int() and substring search are computed  *)
(* and not assumed.                                                        *)
(***************************************************************************)
EXTENDS Integers, Sequences, FiniteSets, TLC

VARIABLES
    \* parse_game_time: its arguments and what it returned
    period, clock_str, elapsed_ret,
    \* infer_foul_team / infer_foul_on: their arguments and what they returned
    row, home_meta, away_meta, athlete_lookup, team_ret, foul_on_ret,
    \* build_wp_df_from_summary / extract_foul_rows: the summary document, the
    \* timeline table and the foul records
    data, df, foul_rows,
    \* list_event_ids_for_season: the loop's locals, and the request last sent
    crawl_pc, season_start_year, date, event_ids, n_queries, last_query, unique_ids,
    \* export_fouls_for_season: the input list, the loop position, the files
    \* written, the lines printed and the ids fetched
    export_pc, export_ids, export_i, files, log, fetched

time_vars == <<period, clock_str, elapsed_ret>>
team_vars == <<row, home_meta, away_meta, athlete_lookup, team_ret, foul_on_ret>>
table_vars == <<data, df, foul_rows>>
season_vars == <<crawl_pc, season_start_year, date, event_ids, n_queries, last_query, unique_ids>>
export_vars == <<export_pc, export_ids, export_i, files, log, fetched>>

vars == <<time_vars, team_vars, table_vars, season_vars, export_vars>>

(***************************************************************************)
(* Python values                                                           *)
(***************************************************************************)
PyNone == [t |-> "none"]
PyNaN == [t |-> "nan"]
PyInt(n) == [t |-> "int", n |-> n]
PyFloat(n) == [t |-> "float", n |-> n]
PyStr(s) == [t |-> "str", s |-> s]
PyRaise(e) == [t |-> "raise", exc |-> e]
PyList(items) == [t |-> "list", items |-> items]

\* The value of a variable a specification does not use, or has not set yet.
Idle == [t |-> "idle"]

IsNone(v) == v.t = "none"
IsRaise(v) == v.t = "raise"

DigitChars == <<"0", "1", "2", "3", "4", "5", "6", "7", "8", "9">>
DigitSet == {DigitChars[i] : i \in 1..10}
DigitValue(c) == (CHOOSE i \in 1..10 : DigitChars[i] = c) - 1

RECURSIVE DigitsValue(_)
DigitsValue(s) ==
    IF s = <<>> THEN 0
    ELSE 10 * DigitsValue(SubSeq(s, 1, Len(s) - 1)) + DigitValue(s[Len(s)])

IsDigits(s) == Len(s) > 0 /\ \A i \in 1..Len(s) : s[i] \in DigitSet

\* int(s) of a str: an optional sign and one or more decimal digits; anything
\* else raises ValueError.  (The alphabets below hold no blank or underscore.)
IntOfStr(s) ==
    IF IsDigits(s) THEN PyInt(DigitsValue(s))
    ELSE IF Len(s) > 1 /\ s[1] = "-" /\ IsDigits(Tail(s)) THEN PyInt(0 - DigitsValue(Tail(s)))
    ELSE IF Len(s) > 1 /\ s[1] = "+" /\ IsDigits(Tail(s)) THEN PyInt(DigitsValue(Tail(s)))
    ELSE PyRaise("ValueError")

\* s.split(sep) for a one-character separator: the list of the parts.
RECURSIVE Split(_, _)
Split(s, sep) ==
    IF \A i \in 1..Len(s) : s[i] # sep THEN <<s>>
    ELSE LET k == CHOOSE i \in 1..Len(s) : s[i] = sep /\ \A j \in 1..(i - 1) : s[j] # sep
         IN <<SubSeq(s, 1, k - 1)>> \o Split(SubSeq(s, k + 1, Len(s)), sep)

(***************************************************************************)
(* parse_game_time                                                         *)
(***************************************************************************)
\* Lines 25-29: mins, secs = clock_str.split(":"); remaining = int(mins) * 60
\* + int(secs), with every exception of the block turned into "no value".
\* A clock that is not a str has no split method (AttributeError, caught).
RemainingSeconds(clock) ==
    IF clock.t # "str" THEN PyNone
    ELSE LET parts == Split(clock.s, ":")
         IN IF Len(parts) # 2 THEN PyNone
            ELSE LET mins == IntOfStr(parts[1])
                     secs == IntOfStr(parts[2])
                 IN IF IsRaise(mins) \/ IsRaise(secs) THEN PyNone
                    ELSE PyInt(mins.n * 60 + secs.n)

ParseGameTimeSwappedLengths(p, clock) ==
    IF IsNone(p) \/ IsNone(clock) THEN PyNone
    ELSE LET remaining == RemainingSeconds(clock)
         IN IF IsNone(remaining) THEN PyNone
            ELSE IF p.t = "str" THEN PyRaise("TypeError")
            ELSE IF p.t = "nan" THEN PyNaN
            ELSE IF p.n <= 4
                 THEN PyInt((p.n - 1) * 12 * 60 + (12 * 60 - remaining.n))
                 ELSE PyInt(4 * 12 * 60 + (p.n - 5) * 12 * 60 + (5 * 60 - remaining.n))

\* parse_game_time(period, clock_str).  "period <= 4" sits outside the try
\* block: a str period raises TypeError there, a NaN period compares False
\* and makes the arithmetic of the else branch NaN.
ParseGameTime(p, clock) ==
    IF IsNone(p) \/ IsNone(clock) THEN PyNone
    ELSE LET remaining == RemainingSeconds(clock)
         IN IF IsNone(remaining) THEN PyNone
            ELSE IF p.t = "str" THEN PyRaise("TypeError")
            ELSE IF p.t = "nan" THEN PyNaN
            ELSE IF p.n <= 4
                 THEN PyInt((p.n - 1) * 12 * 60 + (12 * 60 - remaining.n))
                 ELSE PyInt(4 * 12 * 60 + (p.n - 5) * 5 * 60 + (5 * 60 - remaining.n))

\* ---- inputs of SpecTime ----
MaxPeriod == 7
MaxClockLen == 3

ClockChars == {"1", "5", ":", "x", "-"}

RECURSIVE SeqsUpTo(_, _)
SeqsUpTo(S, n) ==
    IF n = 0 THEN {<<>>}
    ELSE LET shorter == SeqsUpTo(S, n - 1)
         IN shorter \cup {Append(s, c) : s \in {x \in shorter : Len(x) = n - 1}, c \in S}

\* Every "MM:SS" of a countdown clock: minutes 00..19, seconds 00..59.
WellFormedClocks ==
    {<<a, b, ":", c, d>> : a \in {"0", "1"}, b \in DigitSet,
                            c \in {"0", "1", "2", "3", "4", "5"}, d \in DigitSet}

LongClocks == {<<"1", "2", ":", "0", "0", ":", "0", "0">>, <<"1", "1", ":", "x", "x">>,
               <<"1", "2", "0", "0">>, <<"-", "1", ":", "3", "0">>}

ClockValues ==
    {PyNone, PyInt(720), PyNaN}
        \cup {PyStr(s) : s \in WellFormedClocks \cup LongClocks \cup SeqsUpTo(ClockChars, MaxClockLen)}

PeriodValues ==
    {PyNone, PyNaN, PyStr(<<"1">>), PyStr(<<"O", "T">>)} \cup {PyInt(n) : n \in 1..MaxPeriod}

TimeInit ==
    /\ period \in PeriodValues
    /\ clock_str \in ClockValues
    /\ elapsed_ret = Idle

TimeIdle ==
    /\ period = Idle
    /\ clock_str = Idle
    /\ elapsed_ret = Idle

CallParseGameTime ==
    /\ elapsed_ret = Idle
    /\ elapsed_ret' = ParseGameTime(period, clock_str)
    /\ UNCHANGED <<period, clock_str>>
    /\ UNCHANGED <<team_vars, table_vars, season_vars, export_vars>>

(***************************************************************************)
(* Claims about parse_game_time (SpecTime)                                 *)
(***************************************************************************)
\* The lengths the specification gives: 720 s for periods 1-4, 300 s after.
PeriodLength(n) == IF n <= 4 THEN 720 ELSE 300

RECURSIVE PriorPeriodsLength(_)
PriorPeriodsLength(n) ==
    IF n <= 1 THEN 0 ELSE PriorPeriodsLength(n - 1) + PeriodLength(n - 1)

IsWellFormedClock(c) ==
    /\ c.t = "str"
    /\ Len(c.s) = 5
    /\ c.s[3] = ":"
    /\ \A i \in {1, 2, 4, 5} : c.s[i] \in DigitSet

\* The remaining seconds a well-formed "MM:SS" stands for, read off its digits.
ClockRemaining(c) ==
    (10 * DigitValue(c.s[1]) + DigitValue(c.s[2])) * 60
        + 10 * DigitValue(c.s[4]) + DigitValue(c.s[5])

Clock(a, b, c, d) == PyStr(<<a, b, ":", c, d>>)

\* C3: with an integer period >= 1 and a well-formed "MM:SS" clock,
\* parse_game_time returns (the lengths of all prior periods) + (the length of
\* the current period - the remaining seconds); and (1,"12:00") gives 0,
\* (1,"00:00") 720, (4,"00:00") 2880, (5,"05:00") 2880, (5,"00:00") 3180.
ElapsedIsPriorPlusPlayed ==
    (elapsed_ret # Idle /\ period.t = "int" /\ IsWellFormedClock(clock_str)) =>
        /\ elapsed_ret = PyInt(PriorPeriodsLength(period.n)
                                 + (PeriodLength(period.n) - ClockRemaining(clock_str)))
        /\ (period.n = 1 /\ clock_str = Clock("1", "2", "0", "0")) => elapsed_ret = PyInt(0)
        /\ (period.n = 1 /\ clock_str = Clock("0", "0", "0", "0")) => elapsed_ret = PyInt(720)
        /\ (period.n = 4 /\ clock_str = Clock("0", "0", "0", "0")) => elapsed_ret = PyInt(2880)
        /\ (period.n = 5 /\ clock_str = Clock("0", "5", "0", "0")) => elapsed_ret = PyInt(2880)
        /\ (period.n = 5 /\ clock_str = Clock("0", "0", "0", "0")) => elapsed_ret = PyInt(3180)

\* A second overtime, part played: period 6 at "03:20" is 2880 + 300 + 100.
ElapsedInSecondOvertime ==
    /\ period = PyInt(6)
    /\ clock_str = Clock("0", "3", "2", "0")
    /\ elapsed_ret = PyInt(3280)

\* C8: parse_game_time never raises: whatever the period and the clock, it
\* returns a number of elapsed seconds or None.
ParseGameTimeNeverRaises ==
    elapsed_ret # Idle => ~IsRaise(elapsed_ret)

(***************************************************************************)
(* Strings                                                                 *)
(***************************************************************************)
UpperChars == <<"A", "B", "C", "D", "E", "F", "G", "H", "I", "J", "K", "L", "M",
                "N", "O", "P", "Q", "R", "S", "T", "U", "V", "W", "X", "Y", "Z">>
LowerChars == <<"a", "b", "c", "d", "e", "f", "g", "h", "i", "j", "k", "l", "m",
                "n", "o", "p", "q", "r", "s", "t", "u", "v", "w", "x", "y", "z">>

\* The lower-case letter of each upper-case letter.
LowerOfUpper == [c \in {UpperChars[i] : i \in 1..26} |->
                    LowerChars[CHOOSE i \in 1..26 : UpperChars[i] = c]]

LowerChar(c) == IF c \in DOMAIN LowerOfUpper THEN LowerOfUpper[c] ELSE c

\* s.lower()
Lower(s) == [i \in 1..Len(s) |-> LowerChar(s[i])]

\* "s in text" of two str
IsSubstr(s, text) ==
    \E k \in 1..(Len(text) - Len(s) + 1) : SubSeq(text, k, k + Len(s) - 1) = s

RECURSIVE NatDigits(_)
NatDigits(n) ==
    IF n < 10 THEN <<DigitChars[n + 1]>>
    ELSE NatDigits(n \div 10) \o <<DigitChars[(n % 10) + 1]>>

S_Unknown == <<"U", "n", "k", "n", "o", "w", "n">>
S_HOME == <<"H", "O", "M", "E">>
S_AWAY == <<"A", "W", "A", "Y">>
S_None == <<"N", "o", "n", "e">>
S_nan == <<"n", "a", "n">>
S_sep == <<" ", "-", " ">>
S_foul == <<"f", "o", "u", "l">>
S_home == <<"h", "o", "m", "e">>
S_away == <<"a", "w", "a", "y">>

\* str(v)
StrOf(v) ==
    CASE v.t = "str" -> v.s
      [] v.t = "int" -> IF v.n < 0 THEN <<"-">> \o NatDigits(0 - v.n) ELSE NatDigits(v.n)
      [] v.t = "float" -> (IF v.n < 0 THEN <<"-">> \o NatDigits(0 - v.n) ELSE NatDigits(v.n))
                              \o <<".", "0">>
      [] v.t = "nan" -> S_nan
      [] v.t = "none" -> S_None

\* bool(v): None, "" and 0 are false; NaN and a dict with keys are true.
Truthy(v) ==
    CASE v.t = "none" -> FALSE
      [] v.t = "str" -> v.s # <<>>
      [] v.t \in {"int", "float"} -> v.n # 0
      [] v.t = "list" -> v.items # <<>>
      [] OTHER -> TRUE

\* "a or b"
Or(a, b) == IF Truthy(a) THEN a ELSE b

\* pd.notna(v)
NotNa(v) == v.t \notin {"none", "nan"}

(***************************************************************************)
(* get_home_away_meta, build_athlete_lookup_from_summary                   *)
(***************************************************************************)
\* A team object of the summary document; a key the document lacks reads None.
Team(id, abbreviation, displayName, shortDisplayName, name) ==
    [t |-> "dict", id |-> id, abbreviation |-> abbreviation, displayName |-> displayName,
     shortDisplayName |-> shortDisplayName, name |-> name]

NoTeam == Team(PyNone, PyNone, PyNone, PyNone, PyNone)

\* Lines 56-66: the meta of one competitor; "c.get('team') or {}".
MetaOf(c) ==
    LET team == IF Truthy(c.team) THEN c.team ELSE NoTeam
    IN [t |-> "dict",
        id |-> team.id,
        abbr |-> team.abbreviation,
        name |-> Or(team.displayName, Or(team.shortDisplayName, team.name)),
        short |-> Or(team.shortDisplayName, team.abbreviation)]

\* Lines 54-70: the last competitor flagged "home" (resp. "away"), None if none.
RECURSIVE LastFlagged(_, _)
LastFlagged(competitors, flag) ==
    IF competitors = <<>> THEN PyNone
    ELSE LET c == competitors[Len(competitors)]
         IN IF c.homeAway = flag THEN MetaOf(c)
            ELSE LastFlagged(SubSeq(competitors, 1, Len(competitors) - 1), flag)

\* get_home_away_meta(data), from data.header.competitions: <<home, away>>.
GetHomeAwayMeta(competitions) ==
    IF competitions = <<>> THEN <<PyNone, PyNone>>
    ELSE <<LastFlagged(competitions[1].competitors, PyStr(S_home)),
           LastFlagged(competitions[1].competitors, PyStr(S_away))>>

\* build_athlete_lookup_from_summary(data), from data.boxscore.players (each
\* block here with its athletes of all statistics in order): a function from
\* str(athlete id) to {name, team_id, team_abbr}; a later entry of the same id
\* replaces an earlier one.
RECURSIVE LookupOfAthletes(_, _, _)
LookupOfAthletes(athletes, team, lookup) ==
    IF athletes = <<>> THEN lookup
    ELSE LET a == athletes[1]
             entry == [name |-> Or(a.displayName, Or(a.shortName, Or(a.fullName, PyStr(S_Unknown)))),
                       team_id |-> team.id,
                       team_abbr |-> Or(team.abbreviation, team.shortDisplayName)]
             key == StrOf(a.id)
             next == IF IsNone(a.id) THEN lookup
                     ELSE [k \in DOMAIN lookup \cup {key} |-> IF k = key THEN entry ELSE lookup[k]]
         IN LookupOfAthletes(Tail(athletes), team, next)

RECURSIVE BuildAthleteLookupFrom(_, _)
BuildAthleteLookupFrom(players, lookup) ==
    IF players = <<>> THEN lookup
    ELSE LET team == IF Truthy(players[1].team) THEN players[1].team ELSE NoTeam
         IN BuildAthleteLookupFrom(Tail(players),
                                   LookupOfAthletes(players[1].athletes, team, lookup))

BuildAthleteLookup(players) == BuildAthleteLookupFrom(players, <<>>)

(***************************************************************************)
(* infer_foul_team, infer_foul_on                                          *)
(***************************************************************************)
\* Line 285 / 323: "str(int(x)) if isinstance(x, (int, float)) else str(x)"
IdStr(v) == IF v.t \in {"int", "float"} THEN StrOf(PyInt(v.n)) ELSE StrOf(v)

\* Lines 292-304: the lowered names of one side, "" each when the meta is None.
NamesOf(meta) ==
    IF Truthy(meta)
    THEN <<Lower(StrOf(Or(meta.abbr, PyStr(<<>>)))),
           Lower(StrOf(Or(meta.short, PyStr(<<>>)))),
           Lower(StrOf(Or(meta.name, PyStr(<<>>))))>>
    ELSE <<<<>>, <<>>, <<>>>>

\* "any(s and s in desc for s in names)"
AnyIn(names, desc) == \E i \in 1..3 : names[i] # <<>> /\ IsSubstr(names[i], desc)

InferFoulTeamIdFirst(r, home, away) ==
    LET desc == Lower(StrOf(Or(r.description, PyStr(<<>>))))
        team_id == IdStr(r.team_id)
    IN IF NotNa(r.team_id) /\ Truthy(home) /\ team_id = StrOf(home.id) THEN home.abbr
       ELSE IF NotNa(r.team_id) /\ Truthy(away) /\ team_id = StrOf(away.id) THEN away.abbr
       ELSE IF Truthy(r.team_abbr) /\ Truthy(home) /\ r.team_abbr = home.abbr THEN home.abbr
       ELSE IF Truthy(r.team_abbr) /\ Truthy(away) /\ r.team_abbr = away.abbr THEN away.abbr
       ELSE IF AnyIn(NamesOf(home), desc)
            THEN (IF Truthy(home) THEN home.abbr ELSE PyStr(S_HOME))
       ELSE IF AnyIn(NamesOf(away), desc)
            THEN (IF Truthy(away) THEN away.abbr ELSE PyStr(S_AWAY))
       ELSE PyStr(S_Unknown)

\* infer_foul_team(row, home_meta, away_meta): the label returned.
InferFoulTeam(r, home, away) ==
    LET desc == Lower(StrOf(Or(r.description, PyStr(<<>>))))
        team_id == IdStr(r.team_id)
    IN IF Truthy(r.team_abbr) /\ Truthy(home) /\ r.team_abbr = home.abbr THEN home.abbr
       ELSE IF Truthy(r.team_abbr) /\ Truthy(away) /\ r.team_abbr = away.abbr THEN away.abbr
       ELSE IF NotNa(r.team_id) /\ Truthy(home) /\ team_id = StrOf(home.id) THEN home.abbr
       ELSE IF NotNa(r.team_id) /\ Truthy(away) /\ team_id = StrOf(away.id) THEN away.abbr
       ELSE IF AnyIn(NamesOf(home), desc)
            THEN (IF Truthy(home) THEN home.abbr ELSE PyStr(S_HOME))
       ELSE IF AnyIn(NamesOf(away), desc)
            THEN (IF Truthy(away) THEN away.abbr ELSE PyStr(S_AWAY))
       ELSE PyStr(S_Unknown)

\* infer_foul_on(row, home_meta, away_meta, athlete_lookup): the label returned.
InferFoulOn(r, home, away, lookup) ==
    LET team == InferFoulTeam(r, home, away)
        aid == r.primary_athlete_id
        aid_str == IdStr(aid)
        found == NotNa(aid) /\ aid_str \in DOMAIN lookup
        a_name == lookup[aid_str].name
        a_team == Or(lookup[aid_str].team_abbr, team)
        foul_team ==
            IF found /\ Truthy(a_name) /\ Truthy(a_team) /\ team = PyStr(S_Unknown)
            THEN a_team ELSE team
        athlete_label ==
            IF found
            THEN (IF Truthy(a_team)
                  THEN PyStr(StrOf(a_team) \o S_sep \o StrOf(a_name))
                  ELSE a_name)
            ELSE PyNone
    IN IF Truthy(athlete_label) THEN athlete_label ELSE foul_team

\* ---- inputs of SpecTeam ----
S_LAL == <<"L", "A", "L">>
S_BOS == <<"B", "O", "S">>
S_NYK == <<"N", "Y", "K">>
S_Lakers == <<"L", "a", "k", "e", "r", "s">>
S_LA_Lakers == <<"L", "A", " ", "L", "a", "k", "e", "r", "s">>
S_Celtics == <<"C", "e", "l", "t", "i", "c", "s">>
S_Boston_Celtics == <<"B", "o", "s", "t", "o", "n", " ", "C", "e", "l", "t", "i", "c", "s">>
S_James == <<"L", ".", " ", "J", "a", "m", "e", "s">>
D_ShootingFoulBy == <<"S", "h", "o", "o", "t", "i", "n", "g", " ", "f", "o", "u", "l", " ", "b", "y", " ", "X">>
D_NoFoul == <<"N", "o", " ", "f", "o", "u", "l">>
D_LakersFoul == <<"F", "O", "U", "L", " ", "o", "n", " ", "l", "a", "k", "e", "r", "s">>
D_BosFoul == <<"b", "o", "s", " ", "F", "o", "u", "l">>
D_Jumper == <<"M", "a", "k", "e", "s", " ", "j", "u", "m", "p", "e", "r">>

HomeTeams ==
    {Team(id, ab, dn, sdn, PyNone) :
        id \in {PyNone, PyStr(<<"1", "3">>)}, ab \in {PyNone, PyStr(S_LAL)},
        dn \in {PyNone, PyStr(S_LA_Lakers)}, sdn \in {PyNone, PyStr(S_Lakers)}}

AwayTeams ==
    {Team(PyStr(<<"2">>), PyStr(S_BOS), PyStr(S_Boston_Celtics), PyStr(S_Celtics), PyNone),
     Team(PyInt(2), PyNone, PyNone, PyNone, PyStr(S_Celtics)),
     PyNone}

Competitor(flag, team) == [homeAway |-> PyStr(flag), team |-> team]

\* data.header.competitions: absent or empty; or one competition whose
\* competitors are the home and the away side in either order, or the home
\* side alone.
CompetitionsValues ==
    {<<>>}
        \cup {<<[competitors |-> <<Competitor(S_home, h), Competitor(S_away, a)>>]>> :
                 h \in HomeTeams, a \in AwayTeams}
        \cup {<<[competitors |-> <<Competitor(S_away, a), Competitor(S_home, h)>>]>> :
                 h \in HomeTeams, a \in AwayTeams}
        \cup {<<[competitors |-> <<Competitor(S_home, h)>>]>> : h \in HomeTeams}

Athlete(id, displayName) ==
    [id |-> id, displayName |-> displayName, shortName |-> PyNone, fullName |-> PyNone]

\* data.boxscore.players: no block; a block of the home team with one
\* athlete; the same athlete in a block that names no team.
PlayersValues ==
    {<<>>,
     <<[team |-> Team(PyStr(<<"1", "3">>), PyStr(S_LAL), PyNone, PyNone, PyNone),
        athletes |-> <<Athlete(PyStr(<<"7">>), PyStr(S_James))>>]>>,
     <<[team |-> PyNone, athletes |-> <<Athlete(PyInt(7), PyNone)>>]>>}

\* One row of the timeline, as infer_foul_team reads it.
TeamRow(team_abbr, team_id, description, aid) ==
    [team_abbr |-> team_abbr, team_id |-> team_id, description |-> description,
     primary_athlete_id |-> aid]

RowValues ==
    {TeamRow(ab, id, d, aid) :
        ab \in {PyNone, PyStr(S_LAL), PyStr(S_BOS), PyStr(S_NYK)},
        id \in {PyNone, PyNaN, PyStr(<<"1", "3">>), PyStr(<<"2">>), PyFloat(2)},
        d \in {PyNone, PyStr(D_ShootingFoulBy), PyStr(D_LakersFoul), PyStr(D_BosFoul),
               PyStr(D_NoFoul)},
        aid \in {PyNone, PyStr(<<"7">>)}}

TeamInit ==
    /\ row \in RowValues
    /\ \E c \in CompetitionsValues :
          /\ home_meta = GetHomeAwayMeta(c)[1]
          /\ away_meta = GetHomeAwayMeta(c)[2]
    /\ \E p \in PlayersValues : athlete_lookup = BuildAthleteLookup(p)
    /\ team_ret = Idle
    /\ foul_on_ret = Idle

CallInferFoulTeam ==
    /\ team_ret = Idle
    /\ team_ret' = InferFoulTeam(row, home_meta, away_meta)
    /\ UNCHANGED <<row, home_meta, away_meta, athlete_lookup, foul_on_ret>>
    /\ UNCHANGED <<time_vars, table_vars, season_vars, export_vars>>

CallInferFoulOn ==
    /\ foul_on_ret = Idle
    /\ foul_on_ret' = InferFoulOn(row, home_meta, away_meta, athlete_lookup)
    /\ UNCHANGED <<row, home_meta, away_meta, athlete_lookup, team_ret>>
    /\ UNCHANGED <<time_vars, table_vars, season_vars, export_vars>>

(***************************************************************************)
(* build_wp_df_from_summary                                                *)
(***************************************************************************)
\* A play of data.plays and a sample of data.winprobability; a key the
\* document lacks reads None.  Probabilities are held in hundredths.
Play(id, number, displayValue, text, team, participants, typeText) ==
    [id |-> id, period |-> number, clock |-> displayValue, text |-> text, team |-> team,
     homeScore |-> PyNone, awayScore |-> PyNone, participants |-> participants,
     typeText |-> typeText, shortDescription |-> PyNone]

NoPlay == Play(PyNone, PyNone, PyNone, PyNone, PyNone, <<>>, PyNone)

Sample(playId, homeWinPercentage, tiePercentage) ==
    [playId |-> playId, homeWinPercentage |-> homeWinPercentage,
     tiePercentage |-> tiePercentage]

\* Line 95 / 100: plays_by_id.get(pid, {}): the last play whose str(id) is pid.
RECURSIVE PlayById(_, _)
PlayById(plays, pid) ==
    IF plays = <<>> THEN NoPlay
    ELSE IF StrOf(plays[Len(plays)].id) = pid THEN plays[Len(plays)]
    ELSE PlayById(SubSeq(plays, 1, Len(plays) - 1), pid)

\* Lines 125-131: str(id) of every participant whose athlete has an id.
RECURSIVE AthleteIds(_)
AthleteIds(participants) ==
    IF participants = <<>> THEN <<>>
    ELSE (IF IsNone(participants[1]) THEN <<>> ELSE <<StrOf(participants[1])>>)
             \o AthleteIds(Tail(participants))

\* Lines 99-149: the row of one sample.
RowOfSample(w, plays) ==
    LET pid == StrOf(w.playId)
        play == PlayById(plays, pid)
        home_wp == w.homeWinPercentage
        tie_wp == Or(w.tiePercentage, PyInt(0))
        away_wp == IF IsNone(home_wp) THEN PyNone
                   ELSE PyInt(100 - Or(home_wp, PyInt(0)).n - tie_wp.n)
        team == IF Truthy(play.team) THEN play.team ELSE NoTeam
        team_abbr == Or(team.abbreviation, team.shortDisplayName)
        athlete_ids == AthleteIds(play.participants)
    IN [play_id |-> PyStr(pid),
        period |-> play.period,
        clock |-> play.clock,
        home_score |-> play.homeScore,
        away_score |-> play.awayScore,
        home_win_prob |-> home_wp,
        away_win_prob |-> away_wp,
        description |-> play.text,
        team_id |-> team.id,
        team_abbr |-> team_abbr,
        team_name |-> Or(team.displayName, Or(team.shortDisplayName, Or(team.name, team_abbr))),
        primary_athlete_id |-> IF athlete_ids = <<>> THEN PyNone ELSE PyStr(athlete_ids[1]),
        participants_raw |-> athlete_ids]

\* Line 151: pd.DataFrame(rows).  A column that holds a number is a float
\* column, where a None is stored as NaN; a column of str and None, or of
\* None alone, keeps its None.
NumericColumns == {"period", "home_score", "away_score", "home_win_prob", "away_win_prob"}

AsColumnValue(rows, f, v) ==
    IF IsNone(v) /\ (\E i \in 1..Len(rows) : rows[i][f].t = "int") THEN PyNaN ELSE v

DataFrame(rows) ==
    [i \in 1..Len(rows) |->
        [f \in DOMAIN rows[i] |->
            IF f \in NumericColumns THEN AsColumnValue(rows, f, rows[i][f]) ELSE rows[i][f]]]

\* Line 154: astype("int64") of the play_id column, int() of each str.
WithPlayIdInt(rows) ==
    [i \in 1..Len(rows) |->
        [f \in DOMAIN rows[i] \cup {"play_id_int"} |->
            IF f = "play_id_int" THEN IntOfStr(rows[i].play_id.s) ELSE rows[i][f]]]

\* Line 155: sort_values("play_id_int").reset_index(drop=True).  The default
\* sort kind is quicksort, which is not stable: rows of equal key come out
\* in any order.
IsSortedBy(rows, f) ==
    \A i \in 1..(Len(rows) - 1) : rows[i][f].n <= rows[i + 1][f].n

\* The sort left out: the rows stay in the order of the samples.
SortValuesSkipped(rows, f) == {rows}

SortValues(rows, f) ==
    {s \in {[i \in 1..Len(rows) |-> rows[p[i]]] : p \in Permutations(1..Len(rows))} :
        IsSortedBy(s, f)}

\* Lines 158-161: the elapsed column.
WithElapsed(rows) ==
    [i \in 1..Len(rows) |->
        [f \in DOMAIN rows[i] \cup {"elapsed"} |->
            IF f = "elapsed" THEN ParseGameTime(rows[i].period, rows[i].clock)
            ELSE rows[i][f]]]

\* Lines 164-168: column.shift(1): the value one position up, NaN at the top.
Shift(rows, f, i) == IF i = 1 THEN PyNaN ELSE rows[i - 1][f]

BeforeColumns ==
    [home_wp_before |-> "home_win_prob", away_wp_before |-> "away_win_prob",
     elapsed_before |-> "elapsed", period_before |-> "period", clock_before |-> "clock"]

\* shift(-1) in place of shift(1): the value one position down.
WithBeforeShiftedDown(rows) ==
    [i \in 1..Len(rows) |->
        [f \in DOMAIN rows[i] \cup DOMAIN BeforeColumns |->
            IF f \in DOMAIN BeforeColumns
            THEN (IF i = Len(rows) THEN PyNaN ELSE rows[i + 1][BeforeColumns[f]])
            ELSE rows[i][f]]]

WithBefore(rows) ==
    [i \in 1..Len(rows) |->
        [f \in DOMAIN rows[i] \cup DOMAIN BeforeColumns |->
            IF f \in DOMAIN BeforeColumns THEN Shift(rows, BeforeColumns[f], i)
            ELSE rows[i][f]]]

NoWinProbability == PyRaise("ValueError: No win probability data for event")

Table(rows) == [t |-> "table", rows |-> rows]

\* build_wp_df_from_summary(event_id, data): every outcome the call can have,
\* a table or an exception.
BuildWpDf(d) ==
    IF ~Truthy(d.winprobability) THEN {NoWinProbability}
    ELSE LET wp == d.winprobability.items
             rows == DataFrame([i \in 1..Len(wp) |-> RowOfSample(wp[i], d.plays)])
             keyed == WithPlayIdInt(rows)
         IN IF \E i \in 1..Len(keyed) : IsRaise(keyed[i].play_id_int)
            THEN {PyRaise("ValueError: invalid literal for int()")}
            ELSE {IF \E i \in 1..Len(s) : IsRaise(WithElapsed(s)[i].elapsed)
                  THEN PyRaise("TypeError")
                  ELSE Table(WithBefore(WithElapsed(s))) : s \in SortValues(keyed, "play_id_int")}

(***************************************************************************)
(* get_game_officials_from_summary, extract_foul_rows                      *)
(***************************************************************************)
\* Lines 192-197: the name of one official.
OfficialName(o) == Or(o.displayName, Or(o.fullName, Or(o.name, PyStr(S_Unknown))))

\* get_game_officials_from_summary(data): the names (the positions are not
\* read by the export), from the first of the three places that has any.
GetGameOfficials(d) ==
    LET from == IF d.comp_officials # <<>> THEN d.comp_officials
                ELSE IF d.info_officials # <<>> THEN d.info_officials
                ELSE d.box_officials
    IN [i \in 1..Len(from) |-> OfficialName(from[i])]

\* Lines 385-387: the first three names, padded with "".
OfficialNames(d) ==
    LET names == GetGameOfficials(d)
    IN [i \in 1..3 |-> IF i <= Len(names) THEN names[i] ELSE PyStr(<<>>)]

\* na=True in place of na=False: a row without description is kept.
ContainsFoulKeepsNa(description) ==
    description.t # "str" \/ IsSubstr(S_foul, Lower(description.s))

\* Line 393: description.str.contains("foul", case=False, na=False)
ContainsFoul(description) ==
    description.t = "str" /\ IsSubstr(S_foul, Lower(description.s))

\* Lines 396-433: the record of one foul row.
FoulRecord(r, d, home, away, lookup) ==
    LET aid == r.primary_athlete_id
        found == NotNa(aid) /\ IdStr(aid) \in DOMAIN lookup
        fouler == IF found THEN lookup[IdStr(aid)].name ELSE PyNone
        play_obj == PlayById(d.plays, StrOf(r.play_id))
        official_names == OfficialNames(d)
    IN [Period |-> IF NotNa(r.period) THEN r.period ELSE PyNone,
        Clock |-> Or(r.clock, PyStr(<<>>)),
        Team |-> InferFoulTeam(r, home, away),
        Fouler |-> IF Truthy(fouler) THEN fouler ELSE InferFoulOn(r, home, away, lookup),
        Subtype |-> Or(play_obj.typeText, PyStr(<<>>)),
        Descriptor |-> Or(play_obj.shortDescription, PyStr(<<>>)),
        Official1 |-> official_names[1],
        Official2 |-> official_names[2],
        Official3 |-> official_names[3],
        Home_Team |-> IF Truthy(home) THEN Or(home.abbr, PyStr(<<>>)) ELSE PyStr(<<>>),
        Home_Score |-> IF NotNa(r.home_score) THEN r.home_score ELSE PyStr(<<>>),
        Away_Score |-> IF NotNa(r.away_score) THEN r.away_score ELSE PyStr(<<>>),
        WinProb_Current |-> r.home_win_prob,
        WinProb_Previous |-> r.home_wp_before,
        Clock_Previous_WP |-> r.clock_before]

\* Lines 393-435: one record per row the filter keeps, in the table's order.
RECURSIVE FoulRecords(_, _, _, _, _)
FoulRecords(rows, d, home, away, lookup) ==
    IF rows = <<>> THEN <<>>
    ELSE (IF ContainsFoul(rows[1].description)
          THEN <<FoulRecord(rows[1], d, home, away, lookup)>> ELSE <<>>)
             \o FoulRecords(Tail(rows), d, home, away, lookup)

\* extract_foul_rows(event_id, data): every outcome, the table it built with
\* the records it returns, or the exception of build_wp_df_from_summary.
ExtractFoulRows(d) ==
    LET meta == GetHomeAwayMeta(d.competitions)
        lookup == BuildAthleteLookup(d.players)
    IN {[df |-> o,
         rows |-> IF IsRaise(o) THEN o
                  ELSE PyList(FoulRecords(o.rows, d, meta[1], meta[2], lookup))] :
            o \in BuildWpDf(d)}

\* ---- inputs of SpecTimeline and SpecFoul ----
MaxSamples == 3

PlayIdValues == {PyStr(<<"7">>), PyInt(8), PyStr(<<"9">>)}

\* Samples of three plays, with and without probabilities; and one sample
\* that names no play.
SampleValues ==
    {Sample(id, p[1], p[2]) :
        id \in PlayIdValues,
        p \in {<<PyInt(60), PyNone>>, <<PyInt(45), PyInt(5)>>, <<PyNone, PyNone>>}}
        \cup {Sample(PyNone, PyInt(60), PyNone)}

LakersTeam == Team(PyStr(<<"1", "3">>), PyStr(S_LAL), PyStr(S_LA_Lakers), PyStr(S_Lakers), PyNone)
CelticsTeam ==
    Team(PyStr(<<"2">>), PyStr(S_BOS), PyStr(S_Boston_Celtics), PyStr(S_Celtics), PyNone)

\* The plays of a game: play 7 a shooting foul of the home side in period 1,
\* play 8 a "No foul" with a clock and no period; no play 9.  Or no play.
PlaysValues ==
    {<<Play(PyStr(<<"7">>), PyInt(1), PyStr(<<"1", "1", ":", "3", "0">>),
            PyStr(D_ShootingFoulBy), LakersTeam, <<PyStr(<<"7">>)>>, PyStr(S_foul)),
       Play(PyInt(8), PyNone, PyStr(<<"0", "4", ":", "0", "0">>),
            PyStr(D_NoFoul), PyNone, <<>>, PyNone)>>,
     <<>>}

Official(displayName) == [displayName |-> displayName, fullName |-> PyNone, name |-> PyNone]

Summary(wp, plays) ==
    [winprobability |-> wp, plays |-> plays,
     competitions |-> <<[competitors |-> <<Competitor(S_home, LakersTeam),
                                            Competitor(S_away, CelticsTeam)>>]>>,
     players |-> <<[team |-> LakersTeam,
                    athletes |-> <<Athlete(PyStr(<<"7">>), PyStr(S_James))>>]>>,
     comp_officials |-> <<>>,
     info_officials |-> <<Official(PyStr(S_James)), Official(PyNone)>>,
     box_officials |-> <<>>]

SummaryValues ==
    {Summary(wp, plays) :
        wp \in {PyNone} \cup {PyList(w) : w \in SeqsUpTo(SampleValues, MaxSamples)},
        plays \in PlaysValues}

TableInit ==
    /\ data \in SummaryValues
    /\ df = Idle
    /\ foul_rows = Idle

CallBuildWpDf ==
    /\ df = Idle
    /\ df' \in BuildWpDf(data)
    /\ UNCHANGED <<data, foul_rows>>
    /\ UNCHANGED <<time_vars, team_vars, season_vars, export_vars>>

CallExtractFoulRows ==
    /\ foul_rows = Idle
    /\ \E o \in ExtractFoulRows(data) :
          /\ df' = o.df
          /\ foul_rows' = o.rows
    /\ UNCHANGED data
    /\ UNCHANGED <<time_vars, team_vars, season_vars, export_vars>>

(***************************************************************************)
(* Claims about infer_foul_team and infer_foul_on (SpecTeam)               *)
(***************************************************************************)
\* A value that is there: a non-empty str.
Present(v) == v.t = "str" /\ v.s # <<>>

\* The sides whose TeamMeta exists.
Sides == {home_meta, away_meta} \ {PyNone}

HasId(v) == v.t \in {"int", "float"} \/ (v.t = "str" /\ IsDigits(v.s))
IdNumber(v) == IF v.t = "str" THEN DigitsValue(v.s) ELSE v.n

\* s occurs in the text d, letter case ignored.
OccursIgnoringCase(s, d) ==
    /\ d.t = "str"
    /\ \E k \in 0..(Len(d.s) - Len(s)) :
          \A i \in 1..Len(s) : LowerChar(d.s[k + i]) = LowerChar(s[i])

\* (a) the row's team abbreviation equals the side's abbreviation
AbbrMatches(m) == Present(row.team_abbr) /\ row.team_abbr = m.abbr
\* (b) the row's team id equals the side's id
IdMatches(m) == HasId(row.team_id) /\ HasId(m.id) /\ IdNumber(row.team_id) = IdNumber(m.id)
\* (c) the side's abbreviation, short name or full name occurs in the description
TextMatches(m) ==
    \E name \in {m.abbr, m.short, m.name} :
        Present(name) /\ OccursIgnoringCase(name.s, row.description)

\* C4: infer_foul_team takes the label from the first step that finds a match:
\* (a) abbreviation, (b) id, (c) a name in the description, (d) "Unknown"; the
\* label is the abbreviation of a side that matched in that step.
TeamResolvedInOrder ==
    team_ret # Idle =>
        LET A == {m \in Sides : AbbrMatches(m)}
            B == {m \in Sides : IdMatches(m)}
            C == {m \in Sides : TextMatches(m)}
        IN /\ A # {} => team_ret \in {m.abbr : m \in A}
           /\ (A = {} /\ B # {}) => team_ret \in {m.abbr : m \in B}
           /\ (A = {} /\ B = {} /\ C # {}) => team_ret \in {m.abbr : m \in C}
           /\ (A = {} /\ B = {} /\ C = {}) => team_ret = PyStr(S_Unknown)

\* The abbreviation names the home side, the id and the description the away
\* side: the label is the home side's.
TeamAbbrBeatsIdAndText ==
    /\ home_meta # PyNone /\ away_meta # PyNone
    /\ AbbrMatches(home_meta) /\ ~AbbrMatches(away_meta)
    /\ IdMatches(away_meta) /\ ~IdMatches(home_meta)
    /\ TextMatches(away_meta) /\ ~TextMatches(home_meta)
    /\ home_meta.abbr # away_meta.abbr
    /\ team_ret = home_meta.abbr

\* Team or player metadata is missing: a TeamMeta is absent or lacks its id,
\* abbreviation or name, or the row's athlete is not in the lookup.
MetadataMissing ==
    \/ home_meta = PyNone
    \/ away_meta = PyNone
    \/ \E m \in Sides : IsNone(m.id) \/ IsNone(m.abbr) \/ IsNone(m.name)
    \/ ~(NotNa(row.primary_athlete_id) /\ IdStr(row.primary_athlete_id) \in DOMAIN athlete_lookup)

\* C9: with metadata missing, infer_foul_team and infer_foul_on return a label
\* that is a str (a team or player label, or "Unknown"), never None.
LabelsNeverAbsent ==
    MetadataMissing =>
        /\ team_ret # Idle => team_ret.t = "str"
        /\ foul_on_ret # Idle => foul_on_ret.t = "str"

(***************************************************************************)
(* list_event_ids_for_season                                               *)
(***************************************************************************)
\* datetime.date: the proleptic Gregorian calendar.
Date(y, m, d) == [y |-> y, m |-> m, d |-> d]

IsLeapYear(y) == (y % 4 = 0 /\ y % 100 # 0) \/ y % 400 = 0

DaysInMonth(y, m) ==
    IF m = 2 THEN (IF IsLeapYear(y) THEN 29 ELSE 28)
    ELSE IF m \in {4, 6, 9, 11} THEN 30
    ELSE 31

\* date + dt.timedelta(days=1)
NextDay(dt) ==
    IF dt.d < DaysInMonth(dt.y, dt.m) THEN Date(dt.y, dt.m, dt.d + 1)
    ELSE IF dt.m < 12 THEN Date(dt.y, dt.m + 1, 1)
    ELSE Date(dt.y + 1, 1, 1)

\* a <= b of two dates
DateLeq(a, b) ==
    \/ a.y < b.y
    \/ a.y = b.y /\ a.m < b.m
    \/ a.y = b.y /\ a.m = b.m /\ a.d <= b.d

\* Lines 348-349
StartDate(year) == Date(year, 10, 1)
EndDate(year) == Date(year + 1, 6, 30)

TwoDigits(n) == <<DigitChars[(n \div 10) + 1], DigitChars[(n % 10) + 1]>>

\* date.strftime("%Y%m%d"), for a year of four digits
Strftime(dt) == NatDigits(dt.y) \o TwoDigits(dt.m) \o TwoDigits(dt.d)

\* Lines 358-361: the ids of one scoreboard's events appended to event_ids;
\* an id that is None, "" or 0 is passed over, and int() of an id that is no
\* number raises ValueError.
RECURSIVE AppendEventIds(_, _)
AppendEventIds(ids, events) ==
    IF events = <<>> THEN PyList(ids)
    ELSE LET ev_id == events[1]
             n == IF ev_id.t = "str" THEN IntOfStr(ev_id.s) ELSE ev_id
         IN IF ~Truthy(ev_id) THEN AppendEventIds(ids, Tail(events))
            ELSE IF IsRaise(n) THEN n
            ELSE AppendEventIds(Append(ids, n.n), Tail(events))

\* sorted(set(event_ids)) in place of the loop: the order of first
\* occurrence is lost.
RECURSIVE DedupSorted(_, _, _)
DedupSorted(ids, seen, unique_ids_) ==
    IF ids = <<>> THEN unique_ids_
    ELSE LET S == {ids[i] : i \in 1..Len(ids)}
             least == CHOOSE x \in S : \A z \in S : x <= z
         IN DedupSorted(SelectSeq(ids, LAMBDA x : x # least), seen \cup {least},
                        Append(unique_ids_, least))

\* Lines 367-372: the loop over event_ids with the set seen.
RECURSIVE Dedup(_, _, _)
Dedup(ids, seen, unique_ids_) ==
    IF ids = <<>> THEN unique_ids_
    ELSE IF ids[1] \notin seen
         THEN Dedup(Tail(ids), seen \cup {ids[1]}, Append(unique_ids_, ids[1]))
         ELSE Dedup(Tail(ids), seen, unique_ids_)

\* ---- inputs of SpecSeason and SpecDedup ----
MaxCollected == 2
MaxEventsPerDay == 2
MaxDedupLen == 5

YearValues == {2022, 2023}

EventIdSet == {3, 5, 7}

\* ev.get("id") of a scoreboard event: a str of digits, an int, None, or a
\* str that is no number.
RawEventIds == {PyStr(<<"3">>), PyInt(5), PyNone, PyStr(<<"x">>)}

\* What resp.json() gives on a success response: the events' ids, or an
\* exception when the body is no JSON.
BodyValues ==
    {PyList(e) : e \in SeqsUpTo(RawEventIds, MaxEventsPerDay)}
        \cup {PyRaise("JSONDecodeError")}

SeasonInit ==
    /\ season_start_year \in YearValues
    /\ crawl_pc = "loop"
    /\ date = StartDate(season_start_year)
    /\ event_ids = <<>>
    /\ n_queries = 0
    /\ last_query = Idle
    /\ unique_ids = Idle

\* The state at line 366, the while loop over with any list collected.
DedupInit ==
    /\ season_start_year \in YearValues
    /\ crawl_pc = "loop"
    /\ date = NextDay(EndDate(season_start_year))
    /\ event_ids \in SeqsUpTo(EventIdSet, MaxDedupLen)
    /\ n_queries = 0
    /\ last_query = Idle
    /\ unique_ids = Idle

Querying ==
    /\ crawl_pc = "loop"
    /\ DateLeq(date, EndDate(season_start_year))

\* Lines 354-364, resp.ok: the body's events are read and the day is done.
\* resp.json() raises on a body that is no JSON, int() on an id that is no
\* number: the exception leaves the function.
ScoreboardOk ==
    /\ Querying
    /\ \E sb \in BodyValues :
          LET got == IF IsRaise(sb) THEN sb ELSE AppendEventIds(event_ids, sb.items)
          IN /\ (IF IsRaise(got) THEN TRUE ELSE Len(got.items) <= MaxCollected)
             /\ last_query' = [dates |-> Strftime(date), status |-> "ok"]
             /\ n_queries' = n_queries + 1
             /\ IF IsRaise(got)
                THEN /\ crawl_pc' = "raised"
                     /\ UNCHANGED <<date, event_ids>>
                ELSE /\ event_ids' = got.items
                     /\ date' = NextDay(date)
                     /\ UNCHANGED crawl_pc
    /\ UNCHANGED <<season_start_year, unique_ids>>
    /\ UNCHANGED <<time_vars, team_vars, table_vars, export_vars>>

\* A miss that is retried: the same day is asked for again.
ScoreboardMissRetried ==
    /\ Querying
    /\ last_query' = [dates |-> Strftime(date), status |-> "miss"]
    /\ n_queries' = n_queries + 1
    /\ UNCHANGED <<crawl_pc, season_start_year, date, event_ids, unique_ids>>
    /\ UNCHANGED <<time_vars, team_vars, table_vars, export_vars>>

\* Lines 362-364, not resp.ok: the miss is printed and the day is done.
ScoreboardMiss ==
    /\ Querying
    /\ last_query' = [dates |-> Strftime(date), status |-> "miss"]
    /\ n_queries' = n_queries + 1
    /\ date' = NextDay(date)
    /\ UNCHANGED <<crawl_pc, season_start_year, event_ids, unique_ids>>
    /\ UNCHANGED <<time_vars, team_vars, table_vars, export_vars>>

\* Line 355: requests.get raises (a timeout, no connection); nothing in
\* the function or its caller catches it.
ScoreboardRaises ==
    /\ Querying
    /\ last_query' = [dates |-> Strftime(date), status |-> "raise"]
    /\ n_queries' = n_queries + 1
    /\ crawl_pc' = "raised"
    /\ UNCHANGED <<season_start_year, date, event_ids, unique_ids>>
    /\ UNCHANGED <<time_vars, team_vars, table_vars, export_vars>>

\* Lines 353, 366-373: the range is over; the ids are deduplicated and returned.
ReturnUniqueIds ==
    /\ crawl_pc = "loop"
    /\ ~DateLeq(date, EndDate(season_start_year))
    /\ unique_ids' = PyList(Dedup(event_ids, {}, <<>>))
    /\ crawl_pc' = "done"
    /\ UNCHANGED <<season_start_year, date, event_ids, n_queries, last_query>>
    /\ UNCHANGED <<time_vars, team_vars, table_vars, export_vars>>

(***************************************************************************)
(* Claims about build_wp_df_from_summary (SpecTimeline)                    *)
(***************************************************************************)
IsTable(v) == v.t = "table"

\* A field without value: None, or NaN in a float column.
Absent(v) == v.t \in {"none", "nan"}

PlayIdInt(i) == df.rows[i].play_id_int.n

\* C1 as claimed: every row's play_id_int is greater than that of the row
\* before it.
RowsStrictlyIncreasing ==
    IsTable(df) => \A i \in 2..Len(df.rows) : PlayIdInt(i) > PlayIdInt(i - 1)

\* The numeric play ids the samples name, in the order of the samples.
SampleIds == [i \in 1..Len(data.winprobability.items) |->
                 IntOfStr(StrOf(data.winprobability.items[i].playId)).n]

\* C1 as amended: the table has one row per sample, in non-decreasing order of
\* play_id_int; the order is strict when no two samples name the same play id.
RowsNonDecreasing ==
    IsTable(df) =>
        /\ Len(df.rows) = Len(SampleIds)
        /\ \A i \in 2..Len(df.rows) : PlayIdInt(i) >= PlayIdInt(i - 1)
        /\ (\A i, j \in 1..Len(SampleIds) : i # j => SampleIds[i] # SampleIds[j])
              => \A i \in 2..Len(df.rows) : PlayIdInt(i) > PlayIdInt(i - 1)

\* Samples out of order, two of them of the same play: the table is ordered
\* and holds the play twice.
SortedWithRepeatedPlay ==
    /\ IsTable(df)
    /\ Len(df.rows) = 3
    /\ SampleIds[1] > SampleIds[2]
    /\ PlayIdInt(1) = PlayIdInt(2)
    /\ PlayIdInt(2) < PlayIdInt(3)

\* C2: the "_before" fields of the first row are absent, and those of every
\* other row are the fields of the row one position before it.
BeforeFieldsArePreviousRow ==
    IsTable(df) =>
        \A p \in {<<"home_wp_before", "home_win_prob">>, <<"away_wp_before", "away_win_prob">>,
                  <<"elapsed_before", "elapsed">>, <<"period_before", "period">>,
                  <<"clock_before", "clock">>} :
            /\ Absent(df.rows[1][p[1]])
            /\ \A i \in 2..Len(df.rows) : df.rows[i][p[1]] = df.rows[i - 1][p[2]]

\* A second row that carries the first row's probability, clock and elapsed
\* time, each different from its own.
SecondRowCarriesFirst ==
    /\ IsTable(df)
    /\ Len(df.rows) >= 2
    /\ df.rows[2].home_wp_before = PyInt(60)
    /\ df.rows[2].home_win_prob = PyInt(45)
    /\ df.rows[2].away_wp_before = PyInt(40)
    /\ df.rows[2].elapsed_before = PyInt(30)
    /\ df.rows[2].clock_before.t = "str"
    /\ df.rows[2].clock # df.rows[2].clock_before

(***************************************************************************)
(* Claims about extract_foul_rows (SpecFoul)                               *)
(***************************************************************************)
\* The rows of the timeline whose description holds "foul", case ignored.
FoulPositions ==
    {i \in 1..Len(df.rows) :
        OccursIgnoringCase(<<"f", "o", "u", "l">>, df.rows[i].description)}

\* The record is the one of the timeline row r.
RecordIsOfRow(rec, r) ==
    /\ rec.Period = (IF Absent(r.period) THEN PyNone ELSE r.period)
    /\ rec.Clock = (IF Absent(r.clock) THEN PyStr(<<>>) ELSE r.clock)
    /\ rec.WinProb_Current = r.home_win_prob
    /\ rec.WinProb_Previous = r.home_wp_before
    /\ rec.Clock_Previous_WP = r.clock_before

FirstSeenAt(x) ==
    CHOOSE i \in 1..Len(event_ids) :
        event_ids[i] = x /\ \A j \in 1..(i - 1) : event_ids[j] # x

\* C6: the ids returned are the ids collected, each exactly once, in the
\* order of their first occurrences; [5, 3, 5, 7, 3] gives [5, 3, 7].
UniqueIdsInFirstSeenOrder ==
    unique_ids # Idle =>
        LET u == unique_ids.items
        IN /\ {u[i] : i \in 1..Len(u)} = {event_ids[i] : i \in 1..Len(event_ids)}
           /\ \A i, j \in 1..Len(u) : i # j => u[i] # u[j]
           /\ \A i, j \in 1..Len(u) : i < j <=> FirstSeenAt(u[i]) < FirstSeenAt(u[j])
           /\ event_ids = <<5, 3, 5, 7, 3>> => u = <<5, 3, 7>>

FiveThreeSeven ==
    /\ event_ids = <<5, 3, 5, 7, 3>>
    /\ unique_ids = PyList(<<5, 3, 7>>)

\* The days of a season as YYYYMMDD numbers, month by month: October to
\* December of the start year, January to June of the next, February with
\* 29 days in a leap year.
RECURSIVE DaysOfMonths(_)
DaysOfMonths(months) ==
    IF months = <<>> THEN <<>>
    ELSE [d \in 1..months[1][3] |-> months[1][1] * 10000 + months[1][2] * 100 + d]
             \o DaysOfMonths(Tail(months))

SeasonDays ==
    [y \in YearValues |->
        LET feb == IF (y + 1) % 4 = 0 /\ ((y + 1) % 100 # 0 \/ (y + 1) % 400 = 0)
                   THEN 29 ELSE 28
        IN DaysOfMonths(<<<<y, 10, 31>>, <<y, 11, 30>>, <<y, 12, 31>>,
                          <<y + 1, 1, 31>>, <<y + 1, 2, feb>>, <<y + 1, 3, 31>>,
                          <<y + 1, 4, 30>>, <<y + 1, 5, 31>>, <<y + 1, 6, 30>>>>)]

CrawlState ==
    LET days == SeasonDays[season_start_year]
    IN /\ n_queries <= Len(days)
       /\ n_queries >= 1 => DigitsValue(last_query.dates) = days[n_queries]
       /\ crawl_pc = "done" => n_queries = Len(days)
       /\ crawl_pc = "raised" => last_query.status \in {"raise", "ok"}

\* A request answered by a miss adds no id and leaves the crawl running.
MissStep ==
    (n_queries' = n_queries + 1 /\ last_query'.status = "miss") =>
        (event_ids' = event_ids /\ crawl_pc' = "loop")

MaxGames == 3

ExportIdSet == {401, 402}

ShootingFoulSample == Sample(PyStr(<<"7">>), PyInt(60), PyNone)
NoPlaySample == Sample(PyStr(<<"9">>), PyInt(45), PyInt(5))

GamePlays ==
    <<Play(PyStr(<<"7">>), PyInt(1), PyStr(<<"1", "1", ":", "3", "0">>),
           PyStr(D_ShootingFoulBy), LakersTeam, <<PyStr(<<"7">>)>>, PyStr(S_foul))>>

\* What the summary endpoint may answer for a game: no win-probability data
\* (absent, or an empty list); samples with a foul among them; samples with
\* no foul; a sample that names no play id.
SummaryResponses ==
    {Summary(PyNone, GamePlays),
     Summary(PyList(<<>>), GamePlays),
     Summary(PyList(<<NoPlaySample, ShootingFoulSample>>), GamePlays),
     Summary(PyList(<<NoPlaySample>>), GamePlays),
     Summary(PyList(<<Sample(PyNone, PyInt(60), PyNone)>>), GamePlays)}

ExportInit ==
    /\ export_ids \in SeqsUpTo(ExportIdSet, MaxGames)
    /\ export_pc = "loop"
    /\ export_i = 1
    /\ files = {}
    /\ log = <<>>
    /\ fetched = <<>>

InLoop == export_pc = "loop" /\ export_i <= Len(export_ids)

\* Line 545: print(f"Failed event {ev_id}: {exc}")
FailedLine(ev_id, exc) == [kind |-> "Failed event", ev_id |-> ev_id, exc |-> exc]
\* Line 543: print(f"Wrote {csv_path} ({len(rows)} fouls)")
WroteLine(ev_id, n) == [kind |-> "Wrote", ev_id |-> ev_id, n |-> n]

\* Line 536 raises (raise_for_status, a timeout): caught at line 544, the
\* failure is printed and the loop goes on.
ExportFetchFails ==
    /\ InLoop
    /\ fetched' = Append(fetched, [ev_id |-> export_ids[export_i], status |-> "error",
                                   winprobability |-> FALSE,
                                   rows |-> PyRaise("HTTPError")])
    /\ log' = Append(log, FailedLine(export_ids[export_i], "HTTPError"))
    /\ export_i' = export_i + 1
    /\ UNCHANGED <<export_pc, export_ids, files>>
    /\ UNCHANGED <<time_vars, team_vars, table_vars, season_vars>>

\* The loop left at the failure, as by a break in the except clause.
ExportExtractFailsAndStops ==
    /\ InLoop
    /\ \E d \in SummaryResponses : \E o \in ExtractFoulRows(d) :
          /\ IsRaise(o.rows)
          /\ fetched' = Append(fetched, [ev_id |-> export_ids[export_i], status |-> "ok",
                                         winprobability |-> Truthy(d.winprobability),
                                         rows |-> o.rows])
          /\ log' = Append(log, FailedLine(export_ids[export_i], o.rows.exc))
    /\ export_pc' = "done"
    /\ UNCHANGED <<export_i, export_ids, files>>
    /\ UNCHANGED <<time_vars, team_vars, table_vars, season_vars>>

\* Lines 536-537, 544-545: the summary is fetched and extract_foul_rows
\* raises (no win-probability data, a play id that is no number): caught,
\* the failure is printed with the game's id and the loop goes on.
ExportExtractFails ==
    /\ InLoop
    /\ \E d \in SummaryResponses : \E o \in ExtractFoulRows(d) :
          /\ IsRaise(o.rows)
          /\ fetched' = Append(fetched, [ev_id |-> export_ids[export_i], status |-> "ok",
                                         winprobability |-> Truthy(d.winprobability),
                                         rows |-> o.rows])
          /\ log' = Append(log, FailedLine(export_ids[export_i], o.rows.exc))
    /\ export_i' = export_i + 1
    /\ UNCHANGED <<export_pc, export_ids, files>>
    /\ UNCHANGED <<time_vars, team_vars, table_vars, season_vars>>

\* Lines 536-539: no foul row: "continue", nothing is written or printed.
ExportNoFouls ==
    /\ InLoop
    /\ \E d \in SummaryResponses : \E o \in ExtractFoulRows(d) :
          /\ ~IsRaise(o.rows)
          /\ o.rows.items = <<>>
          /\ fetched' = Append(fetched, [ev_id |-> export_ids[export_i], status |-> "ok",
                                         winprobability |-> Truthy(d.winprobability),
                                         rows |-> o.rows])
    /\ export_i' = export_i + 1
    /\ UNCHANGED <<export_pc, export_ids, files, log>>
    /\ UNCHANGED <<time_vars, team_vars, table_vars, season_vars>>

\* Lines 536-543: the records are written to <season_dir>/<ev_id>.csv, in
\* place of a file of that name, and the line is printed.
ExportWritesFile ==
    /\ InLoop
    /\ \E d \in SummaryResponses : \E o \in ExtractFoulRows(d) :
          /\ ~IsRaise(o.rows)
          /\ o.rows.items # <<>>
          /\ fetched' = Append(fetched, [ev_id |-> export_ids[export_i], status |-> "ok",
                                         winprobability |-> Truthy(d.winprobability),
                                         rows |-> o.rows])
          /\ files' = {f \in files : f.name # export_ids[export_i]}
                          \cup {[name |-> export_ids[export_i], rows |-> o.rows.items]}
          /\ log' = Append(log, WroteLine(export_ids[export_i], Len(o.rows.items)))
    /\ export_i' = export_i + 1
    /\ UNCHANGED <<export_pc, export_ids>>
    /\ UNCHANGED <<time_vars, team_vars, table_vars, season_vars>>

\* Line 534: the list is exhausted and the function returns.
ExportReturns ==
    /\ export_pc = "loop"
    /\ export_i > Len(export_ids)
    /\ export_pc' = "done"
    /\ UNCHANGED <<export_ids, export_i, files, log, fetched>>
    /\ UNCHANGED <<time_vars, team_vars, table_vars, season_vars>>

(***************************************************************************)
(* Claims about export_fouls_for_season (SpecExport)                       *)
(***************************************************************************)
\* C7: a game whose summary has no win-probability data fails alone: the
\* failure is printed with the game's id, no file is written for the failure,
\* the ids are fetched in the order of the list, and the function returns
\* only when the whole list has been visited.
MissingWinProbabilityFailsOneGame ==
    /\ Len(fetched) = export_i - 1
    /\ Len(fetched) <= Len(export_ids)
    /\ \A k \in 1..Len(fetched) : fetched[k].ev_id = export_ids[k]
    /\ export_pc = "done" => Len(fetched) = Len(export_ids)
    /\ \A k \in 1..Len(fetched) :
          (fetched[k].status = "ok" /\ ~fetched[k].winprobability) =>
              \E n \in 1..Len(log) : log[n] = FailedLine(export_ids[k], NoWinProbability.exc)
    /\ \A f \in files :
          \E k \in 1..Len(fetched) :
              fetched[k].ev_id = f.name /\ fetched[k].status = "ok" /\ fetched[k].winprobability

\* Three games, the first without win-probability data: its failure is the
\* first line printed, the other two are fetched and the last one written.
LaterGamesExportedAfterFailure ==
    /\ export_pc = "done"
    /\ export_ids = <<401, 402, 402>>
    /\ fetched[1].status = "ok" /\ ~fetched[1].winprobability
    /\ log[1] = FailedLine(401, NoWinProbability.exc)
    /\ Len(fetched) = 3
    /\ \E f \in files : f.name = 402
    /\ ~\E f \in files : f.name = 401

\* The iteration at position k fetched the summary and extract_foul_rows
\* returned a sequence of records (empty or not).
Extracted(k) == fetched[k].status = "ok" /\ ~IsRaise(fetched[k].rows)

\* No later position of the list names the same game and was extracted too.
LastExtraction(k) ==
    \A j \in (k + 1)..Len(fetched) :
        fetched[j].ev_id = fetched[k].ev_id => ~Extracted(j)

\* C11: once export_fouls_for_season has returned, every game id of the list
\* whose summary was fetched and whose extraction succeeded has a file named
\* after it that holds the records extracted for it, also when there are no
\* records at all.
OneFilePerExtractedGame ==
    export_pc = "done" =>
        \A k \in 1..Len(fetched) :
            (Extracted(k) /\ LastExtraction(k)) =>
                [name |-> fetched[k].ev_id, rows |-> fetched[k].rows.items] \in files

(***************************************************************************)
(* Specifications                                                          *)
(***************************************************************************)
TeamIdle ==
    /\ row = Idle /\ home_meta = Idle /\ away_meta = Idle
    /\ athlete_lookup = Idle /\ team_ret = Idle /\ foul_on_ret = Idle

TableIdle ==
    /\ data = Idle /\ df = Idle /\ foul_rows = Idle

SeasonIdle ==
    /\ crawl_pc = Idle /\ season_start_year = Idle /\ date = Idle /\ event_ids = Idle
    /\ n_queries = Idle /\ last_query = Idle /\ unique_ids = Idle

ExportIdle ==
    /\ export_pc = Idle /\ export_ids = Idle /\ export_i = Idle
    /\ files = Idle /\ log = Idle /\ fetched = Idle

TimeNext == CallParseGameTime

TeamNext == CallInferFoulTeam \/ CallInferFoulOn

InitTeam == TimeIdle /\ TeamInit /\ TableIdle /\ SeasonIdle /\ ExportIdle

SpecTeam == InitTeam /\ [][TeamNext]_vars

TimelineNext == CallBuildWpDf

InitTimeline == TimeIdle /\ TeamIdle /\ TableInit /\ SeasonIdle /\ ExportIdle

SpecTimeline == InitTimeline /\ [][TimelineNext]_vars

FoulNext == CallExtractFoulRows

InitFoul == TimeIdle /\ TeamIdle /\ TableInit /\ SeasonIdle /\ ExportIdle

SpecFoul == InitFoul /\ [][FoulNext]_vars

SeasonNext == ScoreboardOk \/ ScoreboardMiss \/ ScoreboardRaises \/ ReturnUniqueIds

InitSeason == TimeIdle /\ TeamIdle /\ TableIdle /\ SeasonInit /\ ExportIdle

\* The function is one sequential loop and every request returns or raises
\* within its timeout: a step that can be taken is taken.
SpecSeason == InitSeason /\ [][SeasonNext]_vars /\ WF_vars(SeasonNext)

DedupNext == ReturnUniqueIds

InitDedup == TimeIdle /\ TeamIdle /\ TableIdle /\ DedupInit /\ ExportIdle

SpecDedup == InitDedup /\ [][DedupNext]_vars

ExportNext ==
    \/ ExportFetchFails
    \/ ExportExtractFails
    \/ ExportNoFouls
    \/ ExportWritesFile
    \/ ExportReturns

InitExport == TimeIdle /\ TeamIdle /\ TableIdle /\ SeasonIdle /\ ExportInit

SpecExport == InitExport /\ [][ExportNext]_vars

InitTime == TimeInit /\ TeamIdle /\ TableIdle /\ SeasonIdle /\ ExportIdle

SpecTime == InitTime /\ [][TimeNext]_vars

====
